---- MODULE Spec2Model ----
(***************************************************************************)
(* Model of the word-cloud statistics engine: data_processor.py (speaker   *)
(* list and transcript loading, word cleaning, compute_word_stats,         *)
(* filter_word_stats, SessionData) and session_loader.py (discover_sessions*)
(* and SessionManager with its session cache and merged views).            *)
(*                                                                         *)
(* Token text is a sequence of one-character strings so that cleaning,     *)
(* lower-casing and length tests are computed.  Speaker names, session     *)
(* names, field names and field values are strings; the merged speaker key *)
(* is built by string concatenation as the f-string does.                  *)
(* A Python dict whose order no claim reads is a function; the word table, *)
(* whose insertion order the frequency sort reads, is [keys, val].         *)
(***************************************************************************)
EXTENDS Integers, Sequences, FiniteSets, TLC

VARIABLES
    disk,          \* data directory: folder name -> [header, rows, json]
    session_info,  \* SessionManager._session_info (names, sorted)
    sessions,      \* SessionManager._sessions: name -> SessionData
    ret,           \* the last call of the single-threaded interface and its result
    pc,            \* per thread: position inside get_session
    arg,           \* per thread: session_name argument of the running call
    local,         \* per thread: the SessionData built but not yet stored
    got,           \* per thread: what the last completed get_session returned
    built,         \* per name: SessionData objects constructed so far
    calls          \* per thread: get_session calls started

vars == <<disk, session_info, sessions, ret, pc, arg, local, got, built, calls>>

-----------------------------------------------------------------------------
(* Bounds of the model *)

\* total number of tokens over all transcripts of the data directory
MaxTokens == 3
\* get_session calls one thread starts
MaxCalls == 2

-----------------------------------------------------------------------------
(* Characters and strings as Python sees them *)

LowerAlpha == <<"a","b","c","d","e","f","g","h","i","j","k","l","m",
                "n","o","p","q","r","s","t","u","v","w","x","y","z">>
UpperAlpha == <<"A","B","C","D","E","F","G","H","I","J","K","L","M",
                "N","O","P","Q","R","S","T","U","V","W","X","Y","Z">>
DigitChar == <<"0","1","2","3","4","5","6","7","8","9">>

Range(s) == {s[i] : i \in DOMAIN s}

\* \w of the re module: letters, digits and the underscore
WordChars == Range(LowerAlpha) \cup Range(UpperAlpha) \cup Range(DigitChar) \cup {"_"}

IsWordChar(c) == c \in WordChars

\* what str.strip() removes
IsSpace(c) == c \in {" ", "\t", "\n"}

UpperChars == Range(UpperAlpha)

LowerChar(c) ==
    IF c \in UpperChars
    THEN LowerAlpha[CHOOSE i \in DOMAIN UpperAlpha : UpperAlpha[i] = c]
    ELSE c

\* str.lower() on a character sequence
LowerSeq(w) == [i \in DOMAIN w |-> LowerChar(w[i])]

\* the part of w from its first to its last index in keep
Between(w, keep) ==
    IF keep = {} THEN << >>
    ELSE LET lo == CHOOSE i \in keep : \A j \in keep : i <= j
             hi == CHOOSE i \in keep : \A j \in keep : j <= i
         IN  SubSeq(w, lo, hi)

\* str.strip()
Strip(w) == Between(w, {i \in DOMAIN w : ~IsSpace(w[i])})

\* re.sub(r'^[^\w]+|[^\w]+$', '', word)
StripNonWord(w) == Between(w, {i \in DOMAIN w : IsWordChar(w[i])})

\* str.lower() on the field and column names that occur (strings are atomic here)
LowerName(s) ==
    CASE s = "Speaker" -> "speaker"
      [] s = "Name" -> "name"
      [] s = "Role" -> "role"
      [] s = "Zone" -> "zone"
      [] s = "Region" -> "region"
      [] s = "Team" -> "team"
      [] OTHER -> s

\* str(i) for i in range(100)
StrOfInt(i) ==
    IF i < 10 THEN <<DigitChar[i + 1]>>
    ELSE <<DigitChar[(i \div 10) + 1], DigitChar[(i % 10) + 1]>>

-----------------------------------------------------------------------------
(* Stop words *)

\* config.CUSTOM_STOP_WORDS
CUSTOM_STOP_WORDS == {
    <<"y","e","a","h">>, <<"o","k","a","y">>, <<"o","k">>, <<"u","m">>, <<"u","h">>,
    <<"l","i","k","e">>, <<"k","n","o","w">>, <<"t","h","i","n","k">>, <<"g","o","i","n","g">>,
    <<"g","o","n","n","a">>, <<"g","o","t">>, <<"j","u","s","t">>, <<"r","e","a","l","l","y">>,
    <<"a","c","t","u","a","l","l","y">>, <<"t","h","i","n","g">>, <<"t","h","i","n","g","s">>,
    <<"s","o","m","e","t","h","i","n","g">>, <<"l","o","t">>, <<"k","i","n","d">>,
    <<"s","o","r","t">>, <<"q","u","e","s","t","i","o","n">>,
    <<"q","u","e","s","t","i","o","n","s">>, <<"s","l","i","d","e">>,
    <<"s","l","i","d","e","s">>, <<"n","e","x","t">>, <<"g","r","e","e","n">>,
    <<"y","e","l","l","o","w">>, <<"r","e","d">>, <<"g","r","e","e","n","s">>,
    <<"y","e","l","l","o","w","s">>, <<"r","e","d","s">>, <<"o","h">>, <<"u","s">>,
    <<"a","n","y","t","h","i","n","g">>, <<"f","e","e","l">>, <<"d","o","n","e">>,
    <<"s","u","r","e">>, <<"s","t","a","r","t">>, <<"p","o","i","n","t">>,
    <<"c","o","u","p","l","e">>, <<"s","e","n","s","e">>, <<"l","a","s","t">>, <<"e","n","d">>,
    <<"e","l","s","e">>, <<"f","o","l","k","s">>, <<"s","e","s","s","i","o","n">>,
    <<"f","o","u","r">>, <<"h","a","l","f">>, <<"l","o","o","k","i","n","g">>,
    <<"c","o","m","i","n","g">>, <<"t","e","r","m","s">>, <<"a","n","o","t","h","e","r">>,
    <<"a","n","y","o","n","e">>, <<"e","v","e","r","y","o","n","e">>,
    <<"t","a","l","k","i","n","g">>, <<"t","a","l","k">>, <<"d","a","y">>,
    <<"a","c","r","o","s","s">>, <<"t","r","y","i","n","g">>, <<"b","e","t","t","e","r">>,
    <<"w","h","e","t","h","e","r">>, <<"s","a","y","i","n","g">>,
    <<"N","o","v","a"," ","S","c","o","t","i","a">>, <<"n","o","v","a">>,
    <<"s","c","o","t","i","a">>, <<"t","h","e","r","e","'","s">>, <<"t","h","a","t","'","s">>,
    <<"i","t","'","s">>, <<"d","o","n","'","t">>, <<"c","a","n","'","t">>,
    <<"w","o","n","'","t">>, <<"w","o","u","l","d","n","'","t">>,
    <<"c","o","u","l","d","n","'","t">>, <<"s","h","o","u","l","d","n","'","t">>,
    <<"w","e","'","r","e">>, <<"t","h","e","y","'","r","e">>, <<"y","o","u","'","r","e">>,
    <<"i","'","m">>, <<"h","e","'","s">>, <<"s","h","e","'","s">>, <<"w","e","'","v","e">>,
    <<"t","h","e","y","'","v","e">>, <<"y","o","u","'","v","e">>, <<"i","'","v","e">>,
    <<"l","e","t","'","s">>, <<"w","h","a","t","'","s">>, <<"w","h","o","'","s">>,
    <<"h","o","w","'","s">>, <<"h","e","r","e","'","s">>, <<"w","a","s","n","'","t">>,
    <<"w","e","r","e","n","'","t">>, <<"h","a","s","n","'","t">>,
    <<"h","a","v","e","n","'","t">>, <<"d","i","d","n","'","t">>, <<"i","s","n","'","t">>,
    <<"a","r","e","n","'","t">>, <<"d","o","e","s","n","'","t">>, <<"w","o","u","l","d">>,
    <<"c","o","u","l","d">>, <<"s","h","o","u","l","d">>, <<"m","i","g","h","t">>,
    <<"m","a","y">>, <<"m","u","s","t">>, <<"g","e","t">>, <<"g","o">>, <<"w","e","n","t">>,
    <<"c","o","m","e">>, <<"c","a","m","e">>, <<"s","a","y">>, <<"s","a","i","d">>,
    <<"s","e","e">>, <<"s","a","w">>, <<"m","a","k","e">>, <<"m","a","d","e">>,
    <<"t","a","k","e">>, <<"t","o","o","k">>, <<"g","i","v","e">>, <<"g","a","v","e">>,
    <<"p","u","t">>, <<"l","e","t">>, <<"t","r","y">>, <<"l","o","o","k">>,
    <<"w","a","n","t">>, <<"n","e","e","d">>, <<"t","e","l","l">>, <<"t","o","l","d">>,
    <<"a","s","k">>, <<"a","s","k","e","d">>, <<"u","s","e">>, <<"u","s","e","d">>,
    <<"w","e","l","l">>, <<"r","i","g","h","t">>, <<"m","e","a","n">>, <<"b","i","t">>,
    <<"w","a","y">>, <<"e","v","e","n">>, <<"s","t","i","l","l">>, <<"a","l","s","o">>,
    <<"p","r","o","b","a","b","l","y">>, <<"m","a","y","b","e">>, <<"a","n","y","w","a","y">>,
    <<"b","a","s","i","c","a","l","l","y">>, <<"c","e","r","t","a","i","n","l","y">>,
    <<"d","e","f","i","n","i","t","e","l","y">>, <<"o","b","v","i","o","u","s","l","y">>,
    <<"e","s","s","e","n","t","i","a","l","l","y">>, <<"g","u","e","s","s">>,
    <<"s","u","p","p","o","s","e">>, <<"n","o","w">>, <<"t","h","e","n">>,
    <<"t","o","d","a","y">>, <<"t","i","m","e">>, <<"a","l","r","e","a","d","y">>,
    <<"y","e","t">>, <<"o","n","e">>, <<"t","w","o">>, <<"t","h","r","e","e">>,
    <<"f","i","r","s","t">>, <<"m","u","c","h">>, <<"m","a","n","y">>,
    <<"l","i","t","t","l","e">>, <<"b","i","g">>, <<"g","o","o","d">>, <<"g","r","e","a","t">>,
    <<"b","a","c","k">>, <<"a","r","o","u","n","d">>, <<"d","i","f","f","e","r","e","n","t">>,
    <<"a","b","l","e">>, <<"n","e","w">>, <<"p","a","r","t">>, <<"p","e","o","p","l","e">>
    }

\* stopwords.words('english') of NLTK: the members the modelled transcripts can hit
NLTKStopWords == {<<"t","h","e">>, <<"a","n","d">>, <<"i","s">>, <<"i","t">>, <<"t","o">>,
                  <<"o","f">>, <<"i","n">>, <<"a">>, <<"i">>, <<"w","e">>, <<"y","o","u">>}

get_stop_words ==
    NLTKStopWords \cup CUSTOM_STOP_WORDS
        \cup {<<LowerAlpha[i]>> : i \in DOMAIN LowerAlpha}
        \cup {StrOfInt(i) : i \in 0..99}

clean_word(word) == Strip(LowerSeq(StripNonWord(word)))

\* Retained without the stop-word test
Retained_NoStopWords(word) == ~(word = << >> \/ Len(word) < 2)

\* the test of compute_word_stats line 133, negated: the word is counted
Retained(word) == ~(word = << >> \/ word \in get_stop_words \/ Len(word) < 2)

-----------------------------------------------------------------------------
(* Python dicts *)

EmptyDict == [k \in {} |-> 0]

\* d.get(k, default)
Get(d, k, default) == IF k \in DOMAIN d THEN d[k] ELSE default

\* d[k] = v
Put(d, k, v) == [x \in DOMAIN d \cup {k} |-> IF x = k THEN v ELSE d[x]]

\* d[k] += n on a defaultdict(int)
Add(d, k, n) == Put(d, k, Get(d, k, 0) + n)

\* sum(d.values())
RECURSIVE SumOver(_, _)
SumOver(d, ks) ==
    IF ks = {} THEN 0
    ELSE LET k == CHOOSE x \in ks : TRUE IN d[k] + SumOver(d, ks \ {k})

SumValues(d) == SumOver(d, DOMAIN d)

\* an insertion-ordered dict: the word table
EmptyTable == [keys |-> << >>, val |-> EmptyDict]

\* t[k] = v, a new key going last
TablePut(t, k, v) ==
    [keys |-> IF k \in DOMAIN t.val THEN t.keys ELSE Append(t.keys, k),
     val  |-> Put(t.val, k, v)]

-----------------------------------------------------------------------------
(* data_processor.py: loading *)

\* the metadata dict of one row: lines 57-62
RECURSIVE RowMetadata(_, _, _, _)
RowMetadata(metadata, columns, parts, j) ==
    IF j > Len(columns) THEN metadata
    ELSE RowMetadata(
            Put(metadata, LowerName(columns[j]),
                IF j + 2 <= Len(parts) THEN parts[j + 2] ELSE ""),
            columns, parts, j + 1)

\* the loop over the data rows: lines 46-65
RECURSIVE LoadRows(_, _, _, _)
LoadRows(speakers, columns, rows, r) ==
    IF r > Len(rows) THEN speakers
    ELSE LET parts == rows[r] IN
         IF Len(parts) < 2 THEN LoadRows(speakers, columns, rows, r + 1)
         ELSE LET speaker_id == parts[1]
                  name == parts[2]
                  metadata == RowMetadata([speaker_id |-> speaker_id, name |-> name],
                                          columns, parts, 1)
              IN  LoadRows(Put(speakers, name, metadata), columns, rows, r + 1)

\* csv: [header, rows], each line already split on ',' and stripped
load_speakerlist(csv) ==
    LET columns == Tail(csv.header)
    IN  [speakers |-> LoadRows(EmptyDict, columns, csv.rows, 1), columns |-> columns]

\* json: the word objects of all segments in order; timing and score are passed through
load_transcript(json) ==
    [i \in DOMAIN json |-> [word |-> Strip(LowerSeq(json[i].word)), speaker |-> json[i].speaker]]

-----------------------------------------------------------------------------
(* data_processor.py: compute_word_stats *)

\* CountedKeys without the "and value" test
CountedKeys_EmptyCounted(speaker_meta) ==
    {key \in DOMAIN speaker_meta : key \notin {"speaker_id", "name"}}

\* the fields of a speaker record that are counted: line 146
CountedKeys(speaker_meta) ==
    {key \in DOMAIN speaker_meta : key \notin {"speaker_id", "name"} /\ speaker_meta[key] # ""}

\* AddMetadata adding 1 whatever the count: "+= 1" where "+= count" is meant
AddMetadata_PlusOne(metadata, speaker_meta, n) ==
    LET ks == {key \in DOMAIN speaker_meta :
                    key \notin {"speaker_id", "name"} /\ speaker_meta[key] # ""}
    IN  [key \in DOMAIN metadata \cup ks |->
            IF key \in ks
            THEN Add(Get(metadata, key, EmptyDict), speaker_meta[key], 1)
            ELSE metadata[key]]

\* metadata[key][value] += n for every counted field of the speaker
AddMetadata(metadata, speaker_meta, n) ==
    LET ks == CountedKeys(speaker_meta)
    IN  [key \in DOMAIN metadata \cup ks |->
            IF key \in ks
            THEN Add(Get(metadata, key, EmptyDict), speaker_meta[key], n)
            ELSE metadata[key]]

\* the defaultdict entry: lines 123-127
NewStats == [total_count |-> 0, speakers |-> EmptyDict, metadata |-> EmptyDict]

\* CountToken skipping a speaker that is not in the directory
CountToken_SkipUnlisted(stats, speaker, speakers) ==
    IF speaker \notin DOMAIN speakers THEN stats
    ELSE [total_count |-> stats.total_count + 1,
          speakers    |-> Add(stats.speakers, speaker, 1),
          metadata    |-> AddMetadata(stats.metadata, speakers[speaker], 1)]

\* one retained token: lines 136-147
CountToken(stats, speaker, speakers) ==
    [total_count |-> stats.total_count + 1,
     speakers    |-> Add(stats.speakers, speaker, 1),
     metadata    |-> IF speaker \in DOMAIN speakers
                     THEN AddMetadata(stats.metadata, speakers[speaker], 1)
                     ELSE stats.metadata]

\* the loop over the tokens: lines 129-147
RECURSIVE CountWords(_, _, _, _)
CountWords(word_stats, words, speakers, i) ==
    IF i > Len(words) THEN word_stats
    ELSE LET word == clean_word(words[i].word) IN
         IF ~Retained(word) THEN CountWords(word_stats, words, speakers, i + 1)
         ELSE CountWords(
                TablePut(word_stats, word,
                         CountToken(Get(word_stats.val, word, NewStats),
                                    words[i].speaker, speakers)),
                words, speakers, i + 1)

\* Finish with the mentions as the speaker count
Finish_CountsMentions(stats) ==
    [total_count   |-> stats.total_count,
     speaker_count |-> stats.total_count,
     speakers      |-> stats.speakers,
     metadata      |-> stats.metadata]

\* the result entry: lines 152-157 (and 128-133 of session_loader.py)
Finish(stats) ==
    [total_count   |-> stats.total_count,
     speaker_count |-> Cardinality(DOMAIN stats.speakers),
     speakers      |-> stats.speakers,
     metadata      |-> stats.metadata]

FinishTable(t) == [keys |-> t.keys, val |-> [w \in DOMAIN t.val |-> Finish(t.val[w])]]

compute_word_stats(words, speakers) ==
    FinishTable(CountWords(EmptyTable, words, speakers, 1))

-----------------------------------------------------------------------------
(* data_processor.py: filter_word_stats *)

\* NoSelection that knows the empty filter only
NoSelection_EmptyOnly(filters) == DOMAIN filters = {}

\* line 168: not filters or all(not v for v in filters.values())
NoSelection(filters) == DOMAIN filters = {} \/ \A field \in DOMAIN filters : filters[field] = {}

\* Matches accepting a speaker that passes any one filtered field
Matches_AnyField(meta, filters) ==
    \E field \in DOMAIN filters :
        filters[field] # {} /\ Get(meta, LowerName(field), "") \in filters[field]

\* one speaker against the filters: lines 174-180
Matches(meta, filters) ==
    \A field \in DOMAIN filters :
        filters[field] # {} => Get(meta, LowerName(field), "") \in filters[field]

\* lines 172-182
MatchingSpeakers(speakers, filters) ==
    {speaker \in DOMAIN speakers : Matches(speakers[speaker], filters)}

\* line 188
NewSpeakers(stats, matching_speakers) ==
    [s \in {x \in DOMAIN stats.speakers : x \in matching_speakers} |-> stats.speakers[s]]

\* lines 195-200
RECURSIVE RecomputeMetadata(_, _, _, _)
RecomputeMetadata(new_metadata, new_speakers, todo, speakers) ==
    IF todo = {} THEN new_metadata
    ELSE LET speaker == CHOOSE x \in todo : TRUE IN
         RecomputeMetadata(
            IF speaker \in DOMAIN speakers
            THEN AddMetadata(new_metadata, speakers[speaker], new_speakers[speaker])
            ELSE new_metadata,
            new_speakers, todo \ {speaker}, speakers)

\* FilteredEntry with total_count taken as the number of speakers
FilteredEntry_TotalIsLen(new_speakers, speakers) ==
    [total_count   |-> Cardinality(DOMAIN new_speakers),
     speaker_count |-> Cardinality(DOMAIN new_speakers),
     speakers      |-> new_speakers,
     metadata      |-> RecomputeMetadata(EmptyDict, new_speakers, DOMAIN new_speakers, speakers)]

\* lines 192-207
FilteredEntry(new_speakers, speakers) ==
    [total_count   |-> SumValues(new_speakers),
     speaker_count |-> Cardinality(DOMAIN new_speakers),
     speakers      |-> new_speakers,
     metadata      |-> RecomputeMetadata(EmptyDict, new_speakers, DOMAIN new_speakers, speakers)]

\* the loop over the words: lines 185-207
RECURSIVE FilterWords(_, _, _, _, _)
FilterWords(filtered, word_stats, speakers, matching_speakers, i) ==
    IF i > Len(word_stats.keys) THEN filtered
    ELSE LET word == word_stats.keys[i]
             new_speakers == NewSpeakers(word_stats.val[word], matching_speakers)
         IN  FilterWords(
                IF DOMAIN new_speakers = {} THEN filtered
                ELSE TablePut(filtered, word, FilteredEntry(new_speakers, speakers)),
                word_stats, speakers, matching_speakers, i + 1)

filter_word_stats(word_stats, speakers, filters) ==
    IF NoSelection(filters) THEN word_stats
    ELSE FilterWords(EmptyTable, word_stats, speakers,
                     MatchingSpeakers(speakers, filters), 1)

-----------------------------------------------------------------------------
(* data_processor.py: SessionData *)

\* __init__: lines 226-234; oid is the identity of the constructed object
SessionData(session_name, folder, oid) ==
    LET loaded == load_speakerlist(folder.csv)
        words == load_transcript(folder.json)
    IN  [session_name |-> session_name,
         speakers     |-> loaded.speakers,
         columns      |-> loaded.columns,
         words        |-> words,
         word_stats   |-> compute_word_stats(words, loaded.speakers),
         oid          |-> oid]

-----------------------------------------------------------------------------
(* session_loader.py: merged views *)

\* f"{session.session_name}:{speaker}"
Qualified(session_name, speaker) == session_name \o ":" \o speaker

\* lines 117-119
RECURSIVE MergeSpeakers(_, _, _, _)
MergeSpeakers(merged_speakers, session_name, speakers, todo) ==
    IF todo = {} THEN merged_speakers
    ELSE LET speaker == CHOOSE x \in todo : TRUE IN
         MergeSpeakers(Add(merged_speakers, Qualified(session_name, speaker), speakers[speaker]),
                       session_name, speakers, todo \ {speaker})

\* MergeValues assigning where it should add
MergeValues_Overwrite(merged_values, meta_values) ==
    [value \in DOMAIN merged_values \cup DOMAIN meta_values |->
        IF value \in DOMAIN meta_values THEN meta_values[value] ELSE merged_values[value]]

\* lines 122-123: one field
MergeValues(merged_values, meta_values) ==
    [value \in DOMAIN merged_values \cup DOMAIN meta_values |->
        Get(merged_values, value, 0) + Get(meta_values, value, 0)]

\* lines 121-123
MergeMetadata(merged_metadata, metadata) ==
    LET touched == {meta_key \in DOMAIN metadata : DOMAIN metadata[meta_key] # {}}
    IN  [meta_key \in DOMAIN merged_metadata \cup touched |->
            IF meta_key \in touched
            THEN MergeValues(Get(merged_metadata, meta_key, EmptyDict), metadata[meta_key])
            ELSE merged_metadata[meta_key]]

\* MergeWord assigning total_count where it should add
MergeWord_TotalOverwritten(merged, session_name, stats) ==
    [total_count |-> stats.total_count,
     speakers    |-> MergeSpeakers(merged.speakers, session_name, stats.speakers,
                                   DOMAIN stats.speakers),
     metadata    |-> MergeMetadata(merged.metadata, stats.metadata)]

\* one word of one session: lines 114-123
MergeWord(merged, session_name, stats) ==
    [total_count |-> merged.total_count + stats.total_count,
     speakers    |-> MergeSpeakers(merged.speakers, session_name, stats.speakers,
                                   DOMAIN stats.speakers),
     metadata    |-> MergeMetadata(merged.metadata, stats.metadata)]

\* the words of one session: line 113
RECURSIVE MergeSession(_, _, _)
MergeSession(merged_stats, session, i) ==
    IF i > Len(session.word_stats.keys) THEN merged_stats
    ELSE LET word == session.word_stats.keys[i] IN
         MergeSession(
            TablePut(merged_stats, word,
                     MergeWord(Get(merged_stats.val, word, NewStats),
                               session.session_name, session.word_stats.val[word])),
            session, i + 1)

\* the sessions in order: line 112
RECURSIVE MergeSessions(_, _, _)
MergeSessions(merged_stats, all_sessions, k) ==
    IF k > Len(all_sessions) THEN merged_stats
    ELSE MergeSessions(MergeSession(merged_stats, all_sessions[k], 1), all_sessions, k + 1)

\* get_merged_word_stats on the list get_all_sessions returns
MergedWordStats(all_sessions) == FinishTable(MergeSessions(EmptyTable, all_sessions, 1))

\* lines 141-143: the speakers of one session
PrefixSpeakers(merged, session) ==
    LET new == {Qualified(session.session_name, name) : name \in DOMAIN session.speakers}
        Of(key) == CHOOSE name \in DOMAIN session.speakers :
                        Qualified(session.session_name, name) = key
    IN  [key \in DOMAIN merged \cup new |->
            IF key \in new
            THEN Put(session.speakers[Of(key)], "session", session.session_name)
            ELSE merged[key]]

\* get_merged_speakers on the list get_all_sessions returns
RECURSIVE MergedSpeakers(_, _, _)
MergedSpeakers(merged, all_sessions, k) ==
    IF k > Len(all_sessions) THEN merged
    ELSE MergedSpeakers(PrefixSpeakers(merged, all_sessions[k]), all_sessions, k + 1)

-----------------------------------------------------------------------------
(* The data directory the model runs on *)

\* folders that hold a transcript and a speaker list
SessionNames == {"s", "s:A"}

\* a folder with a transcript and no speakerlist.csv
OtherFolder == "tmp"

Threads == {"t1", "t2"}

\* speakerlist.csv of each folder, one tuple per line
CsvOf(name) ==
    IF name = "s"
    THEN [header |-> <<"Speaker", "Name", "Role", "Zone", "Region">>,
          rows   |-> << <<"S0", "A", "eng", "n", "w">>,
                        <<"S1", "A:B", "pm", "s", "">>,
                        <<"">> >>]
    ELSE [header |-> <<"Speaker", "Name", "Role", "Team">>,
          rows   |-> << <<"S0", "A", "pm", "s", "x">>,
                        <<"S1", "B", "eng", "n">>,
                        <<"S2">> >>]

\* the word objects a transcript of each folder is made of
TokenPool(name) ==
    IF name = "s"
    THEN {[word |-> <<"h","i">>, speaker |-> "A"],
          [word |-> <<" ","H","i","!">>, speaker |-> "A:B"],
          [word |-> <<"t","h","e">>, speaker |-> "A"]}
    ELSE {[word |-> <<"h","i">>, speaker |-> "A"],
          [word |-> <<"H","I">>, speaker |-> "B"],
          [word |-> <<"y","o",".">>, speaker |-> "Z"]}

\* the filters the queries are run with: field -> selected values
FilterPool ==
    {EmptyDict,
     [role |-> {}],
     [role |-> {"n"}],
     [Role |-> {"n", "s"}, zone |-> {"w"}],
     [role |-> {"zz"}],
     [zone |-> {""}],
     [team |-> {"x"}, zone |-> {}],
     [session |-> {"s"}]}

SeqsUpTo(S, n) == UNION {[1..m -> S] : m \in 0..n}

Folder(name, json) ==
    [is_dir |-> TRUE, has_json |-> TRUE, has_csv |-> TRUE, json |-> json,
     csv |-> CsvOf(name)]

EmptyFolder == [is_dir |-> TRUE, has_json |-> TRUE, has_csv |-> FALSE, json |-> << >>,
                csv |-> [header |-> <<"">>, rows |-> << >>]]

\* the data directory with the folders S, their transcripts a and b
DiskOf(S, a, b) ==
    [name \in S \cup {OtherFolder} |->
        IF name = "s" THEN Folder(name, a)
        ELSE IF name = "s:A" THEN Folder(name, b)
        ELSE EmptyFolder]

-----------------------------------------------------------------------------
(* session_loader.py: discovery and the session cache *)

\* the order of str on the folder names
NameRank(name) == CASE name = "s" -> 1 [] name = "s:A" -> 2 [] OTHER -> 3

\* sorted(sessions, key=lambda x: x["name"])
RECURSIVE SortedNames(_)
SortedNames(S) ==
    IF S = {} THEN << >>
    ELSE LET first == CHOOSE x \in S : \A y \in S : NameRank(x) <= NameRank(y)
         IN  <<first>> \o SortedNames(S \ {first})

\* the data directory when the root path does not exist
NoRoot == [exists |-> FALSE]

discover_sessions_AnyTranscript(d) ==
    IF d = NoRoot THEN << >>
    ELSE SortedNames({name \in DOMAIN d : d[name].is_dir /\ d[name].has_json})

\* discover_sessions: nothing when the root is missing (lines 28-29), otherwise the
\* directories with both files (lines 32-38), by name (line 46)
discover_sessions(d) ==
    IF d = NoRoot THEN << >>
    ELSE SortedNames({name \in DOMAIN d :
                        d[name].is_dir /\ d[name].has_json /\ d[name].has_csv})

\* the object get_session constructs: lines 78-82
Construct(name, d, blt) == SessionData(name, d[name], <<name, blt[name] + 1>>)

\* get_session run to completion for a discovered name: the cache and the
\* construction count after it
Loaded(st, name, d) ==
    IF name \in DOMAIN st.sessions THEN st
    ELSE [sessions |-> Put(st.sessions, name, Construct(name, d, st.built)),
          built    |-> [st.built EXCEPT ![name] = @ + 1]]

\* get_all_sessions: get_session for every discovered name, in order
RECURSIVE LoadedAll(_, _, _, _)
LoadedAll(st, names, d, k) ==
    IF k > Len(names) THEN st
    ELSE LoadedAll(Loaded(st, names[k], d), names, d, k + 1)

AllSessions(st, names) == [k \in DOMAIN names |-> st.sessions[names[k]]]

-----------------------------------------------------------------------------
(* Initial states *)

NoRet == [op |-> "none"]
NoLocal == [session_name |-> "", oid |-> << >>]

InitManager ==
    /\ session_info = discover_sessions(disk)
    /\ sessions = EmptyDict
    /\ ret = NoRet
    /\ pc = [t \in Threads |-> "idle"]
    /\ arg = [t \in Threads |-> ""]
    /\ local = [t \in Threads |-> NoLocal]
    /\ got = [t \in Threads |-> << >>]
    /\ built = [name \in SessionNames |-> 0]
    /\ calls = [t \in Threads |-> 0]

\* any data directory with at most MaxTokens tokens, and a fresh SessionManager
Init ==
    /\ \E S \in SUBSET SessionNames :
       \E a \in SeqsUpTo(TokenPool("s"), MaxTokens) :
       \E b \in SeqsUpTo(TokenPool("s:A"), MaxTokens) :
            /\ Len(a) + Len(b) <= MaxTokens
            /\ "s" \notin S => a = << >>
            /\ "s:A" \notin S => b = << >>
            /\ disk = DiskOf(S, a, b)
    /\ InitManager

-----------------------------------------------------------------------------
(* Which object a call returns: a dict made by the call, the word_stats dict of *)
(* a cached session, or one of the entry dicts inside it                       *)

New == <<"new">>
CachedTable(name) == <<"word_stats", name>>
CachedEntry(name, word) == <<"entry", name, word>>

\* filter_word_stats: line 169 returns the dict it was given, line 209 the dict
\* made in line 185
filter_word_stats_ref(ref, filters) == IF NoSelection(filters) THEN ref ELSE New

\* stats.get(word.lower(), {...}): the entry dict stored in stats, or the new dict
\* of the default
word_details_ref(stats, ref, word) ==
    IF ref[1] = "word_stats" /\ LowerSeq(word) \in DOMAIN stats.val
    THEN CachedEntry(ref[2], LowerSeq(word))
    ELSE New

-----------------------------------------------------------------------------
(* The single-threaded interface: each call runs to completion *)

Now == [sessions |-> sessions, built |-> built]

ThreadVars == <<pc, arg, local, got, calls>>

\* get_session(name): lines 69-84. error names the exception that left the call:
\* ValueError of line 75, or FileNotFoundError of the open() in load_speakerlist when
\* the folder found by the last discovery is gone
GetSession(name) ==
    /\ IF name \in DOMAIN sessions
       THEN /\ ret' = [op |-> "get_session", name |-> name, raised |-> FALSE,
                       error |-> "", oid |-> sessions[name].oid]
            /\ UNCHANGED <<sessions, built>>
       ELSE IF name \notin Range(session_info)
       THEN /\ ret' = [op |-> "get_session", name |-> name, raised |-> TRUE,
                       error |-> "ValueError", oid |-> << >>]
            /\ UNCHANGED <<sessions, built>>
       ELSE IF name \notin DOMAIN disk
       THEN /\ ret' = [op |-> "get_session", name |-> name, raised |-> TRUE,
                       error |-> "FileNotFoundError", oid |-> << >>]
            /\ UNCHANGED <<sessions, built>>
       ELSE LET st == Loaded(Now, name, disk) IN
            /\ sessions' = st.sessions
            /\ built' = st.built
            /\ ret' = [op |-> "get_session", name |-> name, raised |-> FALSE,
                       error |-> "", oid |-> st.sessions[name].oid]
    /\ UNCHANGED <<disk, session_info, ThreadVars>>

\* filter_word_stats on the table and speakers of one session, with any filter
FilterWordStats(name) ==
    /\ name \in Range(session_info)
    /\ LET st == Loaded(Now, name, disk)
           session == st.sessions[name]
       IN  /\ sessions' = st.sessions
           /\ built' = st.built
           /\ \E filters \in FilterPool :
                ret' = [op |-> "filter_word_stats", merged |-> FALSE, name |-> name,
                        word_stats |-> session.word_stats,
                        speakers |-> session.speakers,
                        filters |-> filters,
                        ref |-> filter_word_stats_ref(CachedTable(name), filters),
                        value |-> filter_word_stats(session.word_stats, session.speakers,
                                                    filters)]
    /\ UNCHANGED <<disk, session_info, ThreadVars>>

\* get_merged_word_stats(): lines 100-135
GetMergedWordStats ==
    /\ LET st == LoadedAll(Now, session_info, disk, 1)
       IN  /\ sessions' = st.sessions
           /\ built' = st.built
           /\ ret' = [op |-> "get_merged_word_stats", ref |-> New,
                      value |-> MergedWordStats(AllSessions(st, session_info))]
    /\ UNCHANGED <<disk, session_info, ThreadVars>>

\* filter_word_stats on the merged table and the merged speakers (lines 158-162),
\* with any filter
MergedFilterWordStats ==
    /\ LET st == LoadedAll(Now, session_info, disk, 1)
           all == AllSessions(st, session_info)
           merged_stats == MergedWordStats(all)
           merged_speakers == MergedSpeakers(EmptyDict, all, 1)
       IN  /\ sessions' = st.sessions
           /\ built' = st.built
           /\ \E filters \in FilterPool :
                ret' = [op |-> "filter_word_stats", merged |-> TRUE, name |-> "",
                        word_stats |-> merged_stats,
                        speakers |-> merged_speakers,
                        filters |-> filters,
                        ref |-> filter_word_stats_ref(New, filters),
                        value |-> filter_word_stats(merged_stats, merged_speakers, filters)]
    /\ UNCHANGED <<disk, session_info, ThreadVars>>

Next ==
    \/ \E name \in SessionNames \cup {OtherFolder} : GetSession(name)
    \/ \E name \in SessionNames : FilterWordStats(name)
    \/ GetMergedWordStats
    \/ MergedFilterWordStats

Spec == Init /\ [][Next]_vars

-----------------------------------------------------------------------------
(* get_session called from several request threads: one action per step that *)
(* another thread can interleave with                                        *)

\* a fixed data directory with both sessions, and a fresh SessionManager
InitThreads ==
    /\ disk = DiskOf(SessionNames, <<[word |-> <<"h","i">>, speaker |-> "A"]>>, << >>)
    /\ InitManager

DataVars == <<disk, session_info, ret>>

\* a request thread enters get_session(name)
Call(t, name) ==
    /\ pc[t] = "idle"
    /\ calls[t] < MaxCalls
    /\ calls' = [calls EXCEPT ![t] = @ + 1]
    /\ arg' = [arg EXCEPT ![t] = name]
    /\ pc' = [pc EXCEPT ![t] = "check"]
    /\ UNCHANGED <<DataVars, sessions, local, got, built>>

\* line 71: if session_name not in self._sessions
Check(t) ==
    /\ pc[t] = "check"
    /\ pc' = [pc EXCEPT ![t] = IF arg[t] \in DOMAIN sessions THEN "return" ELSE "find"]
    /\ UNCHANGED <<DataVars, sessions, arg, local, got, built, calls>>

\* lines 73-75: look the name up in _session_info, raise ValueError when absent
Find(t) ==
    /\ pc[t] = "find"
    /\ IF arg[t] \in Range(session_info)
       THEN /\ pc' = [pc EXCEPT ![t] = "build"]
            /\ got' = got
       ELSE /\ pc' = [pc EXCEPT ![t] = "idle"]
            /\ got' = [got EXCEPT ![t] =
                        Append(@, [name |-> arg[t], raised |-> TRUE, oid |-> << >>])]
    /\ UNCHANGED <<DataVars, sessions, arg, local, built, calls>>

\* lines 78-82, right-hand side: SessionData(...) loads the files and computes
Build(t) ==
    /\ pc[t] = "build"
    /\ local' = [local EXCEPT ![t] = Construct(arg[t], disk, built)]
    /\ built' = [built EXCEPT ![arg[t]] = @ + 1]
    /\ pc' = [pc EXCEPT ![t] = "store"]
    /\ UNCHANGED <<DataVars, sessions, arg, got, calls>>

\* line 78: self._sessions[session_name] = ...
Store(t) ==
    /\ pc[t] = "store"
    /\ sessions' = Put(sessions, arg[t], local[t])
    /\ local' = [local EXCEPT ![t] = NoLocal]
    /\ pc' = [pc EXCEPT ![t] = "return"]
    /\ UNCHANGED <<DataVars, arg, got, built, calls>>

\* line 84: return self._sessions[session_name]
Return(t) ==
    /\ pc[t] = "return"
    /\ got' = [got EXCEPT ![t] =
                Append(@, [name |-> arg[t], raised |-> FALSE, oid |-> sessions[arg[t]].oid])]
    /\ pc' = [pc EXCEPT ![t] = "idle"]
    /\ UNCHANGED <<DataVars, sessions, arg, local, built, calls>>

NextThreads ==
    \E t \in Threads :
        \/ \E name \in SessionNames \cup {OtherFolder} : Call(t, name)
        \/ Check(t)
        \/ Find(t)
        \/ Build(t)
        \/ Store(t)
        \/ Return(t)

SpecThreads == InitThreads /\ [][NextThreads]_vars

-----------------------------------------------------------------------------
(* The session cache over a changing data directory: get_session and refresh  *)
(* called one after the other while session folders disappear and come back   *)

MaxBuilds == 2

\* the transcripts a session folder is created with
Transcripts == {<< >>, <<[word |-> <<"h","i">>, speaker |-> "A"]>>}

\* both session folders present, and a fresh SessionManager
InitCache ==
    /\ \E a \in Transcripts : disk = DiskOf(SessionNames, a, << >>)
    /\ InitManager

\* a session folder is deleted from the data directory
RemoveFolder(name) ==
    /\ name \in DOMAIN disk
    /\ disk' = [n \in DOMAIN disk \ {name} |-> disk[n]]
    /\ UNCHANGED <<session_info, sessions, ret, built, ThreadVars>>

\* a session folder is put (back) into the data directory
CreateFolder(name) ==
    /\ name \notin DOMAIN disk
    /\ built[name] < MaxBuilds
    /\ \E json \in Transcripts : disk' = Put(disk, name, Folder(name, json))
    /\ UNCHANGED <<session_info, sessions, ret, built, ThreadVars>>

Refresh_ClearsCache ==
    /\ session_info' = discover_sessions(disk)
    /\ sessions' = EmptyDict
    /\ ret' = [op |-> "refresh"]
    /\ UNCHANGED <<disk, built, ThreadVars>>

Refresh_KeepsCache ==
    /\ session_info' = discover_sessions(disk)
    /\ sessions' = sessions
    /\ ret' = [op |-> "refresh"]
    /\ UNCHANGED <<disk, built, ThreadVars>>

\* refresh(): lines 58-63
Refresh ==
    /\ session_info' = discover_sessions(disk)
    /\ LET valid_names == Range(session_info')
       IN  sessions' = [k \in DOMAIN sessions \cap valid_names |-> sessions[k]]
    /\ ret' = [op |-> "refresh"]
    /\ UNCHANGED <<disk, built, ThreadVars>>

NextCache ==
    \/ \E name \in SessionNames \cup {OtherFolder} : GetSession(name)
    \/ Refresh
    \/ \E name \in SessionNames : RemoveFolder(name)
    \/ \E name \in SessionNames : CreateFolder(name)

SpecCache == InitCache /\ [][NextCache]_vars

-----------------------------------------------------------------------------
(* The frequency queries behind the word cloud *)

MaxTopN == 1
DefaultTopN == 100

\* the values of top_n the queries are run with
TopNs == (0..MaxTopN) \cup {DefaultTopN}

\* the filters the frequency queries are run with
FrequencyFilters == {EmptyDict, [role |-> {"n"}]}

\* seq[:n] of Python
Slice(seq, n) ==
    IF n >= 0 THEN SubSeq(seq, 1, IF n < Len(seq) THEN n ELSE Len(seq))
    ELSE SubSeq(seq, 1, IF Len(seq) + n > 0 THEN Len(seq) + n ELSE 0)

InsertByCount_BeforeEqual(sorted, k, word_stats) ==
    LET before == {i \in DOMAIN sorted :
                    word_stats.val[sorted[i]].total_count > word_stats.val[k].total_count}
        n == Cardinality(before)
    IN  SubSeq(sorted, 1, n) \o <<k>> \o SubSeq(sorted, n + 1, Len(sorted))

\* one step of the stable descending sort: k goes behind every word already placed
\* whose count is at least its own
InsertByCount(sorted, k, word_stats) ==
    LET before == {i \in DOMAIN sorted :
                    word_stats.val[sorted[i]].total_count >= word_stats.val[k].total_count}
        n == Cardinality(before)
    IN  SubSeq(sorted, 1, n) \o <<k>> \o SubSeq(sorted, n + 1, Len(sorted))

\* sorted(word_stats.items(), key=total_count, reverse=True): lines 214-218
RECURSIVE SortedWords(_, _, _)
SortedWords(sorted, word_stats, i) ==
    IF i > Len(word_stats.keys) THEN sorted
    ELSE SortedWords(InsertByCount(sorted, word_stats.keys[i], word_stats), word_stats, i + 1)

\* get_word_frequencies: lines 212-220
get_word_frequencies(word_stats, top_n) ==
    LET sorted_words == Slice(SortedWords(<< >>, word_stats, 1), top_n)
    IN  [keys |-> sorted_words,
         val  |-> [word \in Range(sorted_words) |-> word_stats.val[word].total_count]]

\* SessionData.get_filtered_frequencies: lines 252-258
GetFilteredFrequencies(name) ==
    /\ name \in Range(session_info)
    /\ LET st == Loaded(Now, name, disk)
           session == st.sessions[name]
       IN  /\ sessions' = st.sessions
           /\ built' = st.built
           /\ \E filters \in FrequencyFilters :
                LET filtered_stats ==
                        IF DOMAIN filters # {}
                        THEN filter_word_stats(session.word_stats, session.speakers, filters)
                        ELSE session.word_stats
                IN  \E top_n \in TopNs :
                        ret' = [op |-> "get_filtered_frequencies", name |-> name,
                                filters |-> filters, top_n |-> top_n,
                                stats |-> filtered_stats,
                                value |-> get_word_frequencies(filtered_stats, top_n)]
    /\ UNCHANGED <<disk, session_info, ThreadVars>>

\* SessionManager.get_merged_frequencies: lines 146-154
GetMergedFrequencies ==
    /\ LET st == LoadedAll(Now, session_info, disk, 1)
           all == AllSessions(st, session_info)
           merged == MergedWordStats(all)
       IN  /\ sessions' = st.sessions
           /\ built' = st.built
           /\ \E filters \in FrequencyFilters :
                LET merged_stats ==
                        IF DOMAIN filters # {}
                        THEN filter_word_stats(merged, MergedSpeakers(EmptyDict, all, 1),
                                               filters)
                        ELSE merged
                IN  \E top_n \in TopNs :
                        ret' = [op |-> "get_merged_frequencies", name |-> "",
                                filters |-> filters, top_n |-> top_n,
                                stats |-> merged_stats,
                                value |-> get_word_frequencies(merged_stats, top_n)]
    /\ UNCHANGED <<disk, session_info, ThreadVars>>

NextFrequencies ==
    \/ \E name \in SessionNames : GetFilteredFrequencies(name)
    \/ GetMergedFrequencies

SpecFrequencies == Init /\ [][NextFrequencies]_vars

-----------------------------------------------------------------------------
(* The word lookups behind the detail panel *)

\* the words the lookups are run with: a key as stored, a capitalised key, a token
\* with its punctuation, and a word no transcript has
QueryWords == {<<"h","i">>, <<"H","i">>, <<"y","o",".">>, <<"z","z">>}

ZeroEntry == [total_count |-> 0, speaker_count |-> 0, speakers |-> EmptyDict,
              metadata |-> EmptyDict]

word_details_AsTyped(stats, word) == Get(stats.val, word, ZeroEntry)

\* stats.get(word.lower(), {...}): lines 267-272 and 164-169
word_details(stats, word) == Get(stats.val, LowerSeq(word), ZeroEntry)

\* SessionData.get_word_details: lines 260-272
GetWordDetails(name) ==
    /\ name \in Range(session_info)
    /\ LET st == Loaded(Now, name, disk)
           session == st.sessions[name]
       IN  /\ sessions' = st.sessions
           /\ built' = st.built
           /\ \E filters \in FrequencyFilters :
                LET stats ==
                        IF DOMAIN filters # {}
                        THEN filter_word_stats(session.word_stats, session.speakers, filters)
                        ELSE session.word_stats
                    ref ==
                        IF DOMAIN filters # {}
                        THEN filter_word_stats_ref(CachedTable(name), filters)
                        ELSE CachedTable(name)
                IN  \E word \in QueryWords :
                        ret' = [op |-> "get_word_details", name |-> name,
                                filters |-> filters, word |-> word, stats |-> stats,
                                ref |-> word_details_ref(stats, ref, word),
                                value |-> word_details(stats, word)]
    /\ UNCHANGED <<disk, session_info, ThreadVars>>

\* SessionManager.get_merged_word_details: lines 156-169
GetMergedWordDetails ==
    /\ LET st == LoadedAll(Now, session_info, disk, 1)
           all == AllSessions(st, session_info)
           merged == MergedWordStats(all)
       IN  /\ sessions' = st.sessions
           /\ built' = st.built
           /\ \E filters \in FrequencyFilters :
                LET merged_stats ==
                        IF DOMAIN filters # {}
                        THEN filter_word_stats(merged, MergedSpeakers(EmptyDict, all, 1),
                                               filters)
                        ELSE merged
                IN  \E word \in QueryWords :
                        ret' = [op |-> "get_merged_word_details", name |-> "",
                                filters |-> filters, word |-> word, stats |-> merged_stats,
                                ref |-> word_details_ref(merged_stats, New, word),
                                value |-> word_details(merged_stats, word)]
    /\ UNCHANGED <<disk, session_info, ThreadVars>>

NextDetails ==
    \/ \E name \in SessionNames : GetWordDetails(name)
    \/ GetMergedWordDetails

SpecDetails == Init /\ [][NextDetails]_vars

-----------------------------------------------------------------------------
(* A caller that writes into what a query returned: Python hands out dicts by  *)
(* reference, so a write into a returned dict is a write into every structure  *)
(* that holds the same dict                                                    *)

\* a data directory with both sessions, and a fresh SessionManager
InitCaller ==
    /\ disk = DiskOf(SessionNames,
                     <<[word |-> <<"h","i">>, speaker |-> "A"],
                       [word |-> <<" ","H","i","!">>, speaker |-> "A:B"]>>,
                     <<[word |-> <<"y","o",".">>, speaker |-> "Z"]>>)
    /\ InitManager

\* returned[word]["total_count"] = 0 on a returned table
ModifyTable ==
    /\ ret.op \in {"filter_word_stats", "get_merged_word_stats"}
    /\ \E word \in DOMAIN ret.value.val :
        /\ ret.value.val[word].total_count # 0
        /\ LET value == [ret.value EXCEPT !.val[word].total_count = 0]
           IN  /\ ret' = [ret EXCEPT !.value = value]
               /\ sessions' = IF ret.ref[1] = "word_stats"
                               THEN [sessions EXCEPT ![ret.ref[2]].word_stats = value]
                               ELSE sessions
    /\ UNCHANGED <<disk, session_info, built, ThreadVars>>

\* returned["total_count"] = 0 on a returned entry
ModifyEntry ==
    /\ ret.op \in {"get_word_details", "get_merged_word_details"}
    /\ ret.value.total_count # 0
    /\ LET value == [ret.value EXCEPT !.total_count = 0]
       IN  /\ ret' = [ret EXCEPT !.value = value]
           /\ sessions' = IF ret.ref[1] = "entry"
                           THEN [sessions EXCEPT
                                    ![ret.ref[2]].word_stats.val[ret.ref[3]] = value]
                           ELSE sessions
    /\ UNCHANGED <<disk, session_info, built, ThreadVars>>

NextCaller ==
    \/ \E name \in SessionNames : FilterWordStats(name)
    \/ GetMergedWordStats
    \/ MergedFilterWordStats
    \/ \E name \in SessionNames : GetWordDetails(name)
    \/ GetMergedWordDetails
    \/ ModifyTable
    \/ ModifyEntry

SpecCaller == InitCaller /\ [][NextCaller]_vars

-----------------------------------------------------------------------------
(* The queries of Spec over transcripts of words that the cleaning and the     *)
(* stop-word test treat differently                                           *)

MaxWords == 2

\* an NLTK stop word, a custom stop word with punctuation, a single letter, a number
\* below 100, one from 100 on, punctuation only, a single word character that is no
\* letter, and a word that is counted
RawTokens ==
    {[word |-> w, speaker |-> "A"] :
        w \in {<<"T","h","e">>, <<"O","k","a","y",",">>, <<"x">>, <<"4","2">>,
               <<"1","0","0">>, <<".",".",".">>, <<"_">>, <<"(","H","i","!">>}}

\* session s with any transcript of up to MaxWords of these tokens, and a fresh
\* SessionManager
InitWords ==
    /\ \E a \in SeqsUpTo(RawTokens, MaxWords) :
            disk = DiskOf(SessionNames, a, <<[word |-> <<"H","I">>, speaker |-> "B"]>>)
    /\ InitManager

SpecWords == InitWords /\ [][Next]_vars

-----------------------------------------------------------------------------
(* The filter options offered by the dropdowns *)

\* the order of str on the metadata values that occur
ValueRank(v) ==
    CASE v = "" -> 0 [] v = "eng" -> 1 [] v = "n" -> 2 [] v = "pm" -> 3
      [] v = "s" -> 4 [] v = "w" -> 5 [] v = "x" -> 6 [] OTHER -> 7

\* sorted(values)
RECURSIVE SortedValues(_)
SortedValues(S) ==
    IF S = {} THEN << >>
    ELSE LET first == CHOOSE x \in S : \A y \in S : ValueRank(x) <= ValueRank(y)
         IN  <<first>> \o SortedValues(S \ {first})

ObservedValues_WithEmpty(speakers, col_lower) ==
    {Get(speakers[s], col_lower, "") : s \in DOMAIN speakers}

\* lines 243-247: the truthy values the speakers have under col_lower
ObservedValues(speakers, col_lower) ==
    {Get(speakers[s], col_lower, "") : s \in DOMAIN speakers} \ {""}

\* the loop of SessionData.get_filter_options over self.columns: lines 239-249
RECURSIVE FilterOptions(_, _, _)
FilterOptions(options, session, i) ==
    IF i > Len(session.columns) THEN options
    ELSE LET col_lower == LowerName(session.columns[i])
             values == ObservedValues(session.speakers, col_lower)
         IN  IF col_lower \in {"name", "speaker", "description"} \/ values = {}
             THEN FilterOptions(options, session, i + 1)
             ELSE FilterOptions(Put(options, col_lower, SortedValues(values)), session, i + 1)

\* SessionData.get_filter_options: lines 236-250
get_filter_options(session) == FilterOptions(EmptyDict, session, 1)

\* merged[col].update(values) for every field of one session: lines 95-96
MergeOptions(merged, options) ==
    [col \in DOMAIN merged \cup DOMAIN options |->
        Get(merged, col, {}) \cup (IF col \in DOMAIN options THEN Range(options[col]) ELSE {})]

\* the loop over get_all_sessions(): lines 94-96
RECURSIVE MergedOptions(_, _, _)
MergedOptions(merged, all_sessions, k) ==
    IF k > Len(all_sessions) THEN merged
    ELSE MergedOptions(MergeOptions(merged, get_filter_options(all_sessions[k])),
                       all_sessions, k + 1)

\* one session's get_filter_options()
GetFilterOptions(name) ==
    /\ name \in Range(session_info)
    /\ LET st == Loaded(Now, name, disk)
       IN  /\ sessions' = st.sessions
           /\ built' = st.built
           /\ ret' = [op |-> "get_filter_options", name |-> name,
                      value |-> get_filter_options(st.sessions[name])]
    /\ UNCHANGED <<disk, session_info, ThreadVars>>

\* SessionManager.get_merged_filter_options: lines 90-98
GetMergedFilterOptions ==
    /\ LET st == LoadedAll(Now, session_info, disk, 1)
           merged == MergedOptions(EmptyDict, AllSessions(st, session_info), 1)
       IN  /\ sessions' = st.sessions
           /\ built' = st.built
           /\ ret' = [op |-> "get_merged_filter_options",
                      value |-> [k \in DOMAIN merged |-> SortedValues(merged[k])]]
    /\ UNCHANGED <<disk, session_info, ThreadVars>>

NextOptions ==
    \/ \E name \in SessionNames : GetFilterOptions(name)
    \/ GetMergedFilterOptions

SpecOptions == Init /\ [][NextOptions]_vars

-----------------------------------------------------------------------------
(* Discovery over data directories of every shape, and the merged views on them *)

\* what the root can hold besides session folders: a folder with a transcript only,
\* a folder with a speaker list only, and a plain file
OtherEntries == {OtherFolder, "notes", "readme"}

CsvOnlyFolder == [is_dir |-> TRUE, has_json |-> FALSE, has_csv |-> TRUE, json |-> << >>,
                  csv |-> CsvOf("notes")]

PlainFile == [is_dir |-> FALSE, has_json |-> FALSE, has_csv |-> FALSE, json |-> << >>,
              csv |-> [header |-> <<"">>, rows |-> << >>]]

\* the root with the session folders S and the other entries X
RootOf(S, X) ==
    [name \in S \cup X |->
        IF name \in SessionNames
        THEN Folder(name, <<[word |-> <<"h","i">>, speaker |-> "A"]>>)
        ELSE IF name = OtherFolder THEN EmptyFolder
        ELSE IF name = "notes" THEN CsvOnlyFolder
        ELSE PlainFile]

\* a missing root or a root with any of these entries, and a fresh SessionManager
InitDiscover ==
    /\ \/ disk = NoRoot
       \/ \E S \in SUBSET SessionNames : \E X \in SUBSET OtherEntries : disk = RootOf(S, X)
    /\ InitManager

NextDiscover ==
    \/ Refresh
    \/ \E name \in SessionNames \cup {OtherFolder} : GetSession(name)
    \/ GetMergedWordStats
    \/ GetMergedFilterOptions
    \/ GetMergedFrequencies

SpecDiscover == InitDiscover /\ [][NextDiscover]_vars

-----------------------------------------------------------------------------
(* What the properties below speak about *)

Filtered == ret.op = "filter_word_stats"
Merged == ret.op = "get_merged_word_stats"

\* a filter call whose filter selects something
Selective == Filtered /\ ~NoSelection(ret.filters)

\* every table the program has produced in this state
ProducedTables ==
    {sessions[name].word_stats : name \in DOMAIN sessions}
        \cup (IF Filtered \/ Merged THEN {ret.value} ELSE {})

\* the sum of n[x] over x in S
SumOf(n, S) == SumOver([x \in S |-> n[x]], S)

\* the tokens of a loaded session whose cleaned text is w
TokensOf(session, w) ==
    {i \in DOMAIN session.words : clean_word(session.words[i].word) = w}

\* the retained words of a loaded session's transcript
RetainedWords(session) ==
    {clean_word(session.words[i].word) : i \in DOMAIN session.words} \ 
        {w \in {clean_word(session.words[i].word) : i \in DOMAIN session.words} : ~Retained(w)}

\* speaker s of directory dir has the non-empty value v for metadata field f
HasValue(dir, s, f, v) ==
    /\ s \in DOMAIN dir
    /\ f \in DOMAIN dir[s]
    /\ f \notin {"speaker_id", "name"}
    /\ v # ""
    /\ dir[s][f] = v

\* speaker s of directory dir passes filter F: its value is selected for every
\* field that has a selection
Passes(dir, s, F) ==
    /\ s \in DOMAIN dir
    /\ \A f \in DOMAIN F :
        F[f] # {} =>
            (IF LowerName(f) \in DOMAIN dir[s] THEN dir[s][LowerName(f)] ELSE "") \in F[f]

\* the metadata fields and values of a directory
FieldsOf(dir) == UNION {DOMAIN dir[s] : s \in DOMAIN dir}
ValuesOf(dir) == UNION {{dir[s][f] : f \in DOMAIN dir[s]} : s \in DOMAIN dir}

\* d[f][v], 0 where the field or value is missing
Count2(d, f, v) == Get(Get(d, f, EmptyDict), v, 0)

-----------------------------------------------------------------------------
(* C1 *)

\* C1: in every table returned by compute_word_stats, filter_word_stats and
\* get_merged_word_stats, total_count of every word is the sum of its speakers' counts
C1_TotalIsSpeakerSum ==
    \A T \in ProducedTables : \A w \in DOMAIN T.val :
        T.val[w].total_count = SumOf(T.val[w].speakers, DOMAIN T.val[w].speakers)

\* a filtered merged table holds a word of two speakers, one of them with two mentions
C1_Witness ==
    /\ Selective /\ ret.merged
    /\ \E w \in DOMAIN ret.value.val :
        /\ Cardinality(DOMAIN ret.value.val[w].speakers) >= 2
        /\ ret.value.val[w].total_count >= 3

-----------------------------------------------------------------------------
(* C2 *)

\* C2: compute_word_stats counts exactly: the keys are the retained cleaned words; per
\* word and speaker the count is the number of tokens with that cleaned text and
\* speaker; a speaker missing from the directory is counted in total_count and
\* speakers and adds nothing to the metadata counts
C2_CountsExactly ==
    \A name \in DOMAIN sessions :
        LET session == sessions[name]
            T == session.word_stats
            dir == session.speakers
            said == {session.words[i].speaker : i \in DOMAIN session.words}
        IN  /\ DOMAIN T.val = RetainedWords(session)
            /\ \A w \in DOMAIN T.val :
                /\ T.val[w].total_count = Cardinality(TokensOf(session, w))
                /\ DOMAIN T.val[w].speakers =
                        {session.words[i].speaker : i \in TokensOf(session, w)}
                /\ \A s \in said :
                        Get(T.val[w].speakers, s, 0) =
                            Cardinality({i \in TokensOf(session, w) :
                                            session.words[i].speaker = s})
                /\ \A f \in FieldsOf(dir) \cup DOMAIN T.val[w].metadata :
                   \A v \in ValuesOf(dir) \cup DOMAIN Get(T.val[w].metadata, f, EmptyDict) :
                        Count2(T.val[w].metadata, f, v) =
                            Cardinality({i \in TokensOf(session, w) :
                                            HasValue(dir, session.words[i].speaker, f, v)})

\* a loaded session counted a speaker missing from the directory and, for another
\* word, two tokens of one listed speaker
C2_Witness ==
    \E name \in DOMAIN sessions :
        LET T == sessions[name].word_stats IN
        /\ \E w \in DOMAIN T.val :
            \E s \in DOMAIN T.val[w].speakers : s \notin DOMAIN sessions[name].speakers
        /\ \E w \in DOMAIN T.val :
            \E s \in DOMAIN T.val[w].speakers :
                /\ s \in DOMAIN sessions[name].speakers
                /\ T.val[w].speakers[s] = 2
                /\ DOMAIN T.val[w].metadata # {}

-----------------------------------------------------------------------------
(* C3 *)

\* the speakers of the input entry that pass the filter, with their counts
Restriction(T, dir, F, w) ==
    [s \in {x \in DOMAIN T.val[w].speakers : Passes(dir, x, F)} |-> T.val[w].speakers[s]]

\* C3: a filter with a selection restricts every word to the speakers of the directory
\* that pass it, counts unchanged; a word is dropped iff no speaker of it passes; no
\* word is added, no total grows, and a filter no speaker passes gives the empty table
C3_FilterRestricts ==
    Selective =>
        LET T == ret.word_stats
            dir == ret.speakers
            F == ret.filters
            R == ret.value
        IN  /\ DOMAIN R.val \subseteq DOMAIN T.val
            /\ \A w \in DOMAIN T.val :
                /\ w \in DOMAIN R.val <=> DOMAIN Restriction(T, dir, F, w) # {}
                /\ w \in DOMAIN R.val =>
                    /\ R.val[w].speakers = Restriction(T, dir, F, w)
                    /\ R.val[w].total_count <= T.val[w].total_count
            /\ (\A s \in DOMAIN dir : ~Passes(dir, s, F)) => DOMAIN R.val = {}

\* a filter kept a word with one of its speakers removed and dropped another word
C3_Witness ==
    /\ Selective
    /\ \E w \in DOMAIN ret.value.val :
        /\ DOMAIN ret.value.val[w].speakers # {}
        /\ DOMAIN ret.value.val[w].speakers # DOMAIN ret.word_stats.val[w].speakers
    /\ DOMAIN ret.value.val # DOMAIN ret.word_stats.val

-----------------------------------------------------------------------------
(* C4 *)

\* C4: after a filter with a selection the metadata counts are those of the kept
\* speakers: metadata[f][v] is the sum of the kept speakers' counts whose directory
\* value for f is v, a field or value no kept speaker has is absent, and for one
\* session the filtered table is content-equal to compute_word_stats on the tokens of
\* the passing speakers
C4_MetadataRederived ==
    Selective =>
        LET dir == ret.speakers
            F == ret.filters
            R == ret.value
        IN  /\ \A w \in DOMAIN R.val :
                /\ \A f \in FieldsOf(dir) \cup DOMAIN R.val[w].metadata :
                   \A v \in ValuesOf(dir) \cup DOMAIN Get(R.val[w].metadata, f, EmptyDict) :
                        Count2(R.val[w].metadata, f, v) =
                            SumOf(R.val[w].speakers,
                                  {s \in DOMAIN R.val[w].speakers : HasValue(dir, s, f, v)})
                /\ \A f \in DOMAIN R.val[w].metadata :
                    /\ DOMAIN R.val[w].metadata[f] # {}
                    /\ \A v \in DOMAIN R.val[w].metadata[f] : R.val[w].metadata[f][v] >= 1
            /\ ~ret.merged =>
                LET words == sessions[ret.name].words
                    Passing(token) == Passes(dir, token.speaker, F)
                IN  R.val = compute_word_stats(SelectSeq(words, Passing), dir).val

\* a session table was filtered down to a word whose kept speaker has two mentions
\* and a metadata value, while another speaker of the word was removed
C4_Witness ==
    /\ Selective /\ ~ret.merged
    /\ \E w \in DOMAIN ret.value.val :
        /\ \E s \in DOMAIN ret.value.val[w].speakers : ret.value.val[w].speakers[s] = 2
        /\ DOMAIN ret.value.val[w].metadata # {}
        /\ DOMAIN ret.value.val[w].speakers # DOMAIN ret.word_stats.val[w].speakers

-----------------------------------------------------------------------------
(* C5 *)

\* the data rows of a speaker list that have as many fields as the header and are
\* the last row of their display name
FullRows(csv) ==
    {r \in DOMAIN csv.rows :
        /\ Len(csv.rows[r]) = Len(csv.header)
        /\ Len(csv.rows[r]) >= 2
        /\ \A q \in DOMAIN csv.rows :
            (q > r /\ Len(csv.rows[q]) >= 2) => csv.rows[q][2] # csv.rows[r][2]}

\* C5: load_speakerlist stores under each metadata column name (lower-cased) the value
\* of that same column of the speaker's row
C5_ColumnsByHeader ==
    \A name \in DOMAIN sessions :
        LET csv == disk[name].csv
            dir == sessions[name].speakers
        IN  \A r \in FullRows(csv) : \A k \in 3..Len(csv.header) :
                /\ csv.rows[r][2] \in DOMAIN dir
                /\ LowerName(csv.header[k]) \in DOMAIN dir[csv.rows[r][2]]
                /\ dir[csv.rows[r][2]][LowerName(csv.header[k])] = csv.rows[r][k]

-----------------------------------------------------------------------------
(* C6 *)

\* the loaded discovered sessions whose table holds w
SessionsWith(w) ==
    {name \in Range(session_info) \cap DOMAIN sessions :
        w \in DOMAIN sessions[name].word_stats.val}

\* speaker s of dir has a non-empty value for metadata field f
HasField(dir, s, f) == \E v \in ValuesOf(dir) : HasValue(dir, s, f, v)

\* the mentions of w by the speakers of one table entry that have a value for f
Contribution(T, dir, w, f) ==
    SumOf(T.val[w].speakers, {s \in DOMAIN T.val[w].speakers : HasField(dir, s, f)})

\* the same over the sessions a merged entry is made of
MergedContribution(w, f) ==
    LET n == [name \in SessionsWith(w) |->
                Contribution(sessions[name].word_stats, sessions[name].speakers, w, f)]
    IN  SumOf(n, SessionsWith(w))

MetadataWithin(T, dir) ==
    \A w \in DOMAIN T.val : \A f \in DOMAIN T.val[w].metadata :
        /\ SumValues(T.val[w].metadata[f]) <= T.val[w].total_count
        /\ SumValues(T.val[w].metadata[f]) = Contribution(T, dir, w, f)

MergedMetadataWithin(T) ==
    \A w \in DOMAIN T.val : \A f \in DOMAIN T.val[w].metadata :
        /\ SumValues(T.val[w].metadata[f]) <= T.val[w].total_count
        /\ SumValues(T.val[w].metadata[f]) = MergedContribution(w, f)

\* C6: in every produced table the counts of a metadata field add up to at most
\* total_count, and to exactly the mentions of the contributing speakers that have a
\* non-empty value for the field
C6_MetadataSum ==
    /\ \A name \in DOMAIN sessions :
        MetadataWithin(sessions[name].word_stats, sessions[name].speakers)
    /\ Merged => MergedMetadataWithin(ret.value)
    /\ Filtered =>
        IF ret.merged /\ NoSelection(ret.filters)
        THEN MergedMetadataWithin(ret.value)
        ELSE MetadataWithin(ret.value, ret.speakers)

\* some field of some word adds up to less than total_count, and to at least 1
StrictlyBelow(T) ==
    \E w \in DOMAIN T.val : \E f \in DOMAIN T.val[w].metadata :
        /\ SumValues(T.val[w].metadata[f]) < T.val[w].total_count
        /\ SumValues(T.val[w].metadata[f]) >= 1

\* a session table, the merged table and its selectively filtered table each hold a
\* field sum strictly below total_count
C6_Witness ==
    /\ Selective /\ ret.merged
    /\ StrictlyBelow(ret.value)
    /\ StrictlyBelow(ret.word_stats)
    /\ \E name \in DOMAIN sessions : StrictlyBelow(sessions[name].word_stats)

-----------------------------------------------------------------------------
(* C7 *)

\* C7: the merged table has exactly the words of the discovered sessions' tables, and
\* a word's merged total_count is the sum of its total_count over the sessions with it
C7_MergeSumLaw ==
    Merged =>
        /\ Range(session_info) \subseteq DOMAIN sessions
        /\ DOMAIN ret.value.val =
                UNION {DOMAIN sessions[name].word_stats.val : name \in Range(session_info)}
        /\ \A w \in DOMAIN ret.value.val :
                ret.value.val[w].total_count =
                    SumOf([name \in SessionsWith(w) |->
                                sessions[name].word_stats.val[w].total_count],
                          SessionsWith(w))

\* the merged table holds a word of both sessions and a word of only one
C7_Witness ==
    /\ Merged
    /\ \E w \in DOMAIN ret.value.val :
        Cardinality(SessionsWith(w)) = 2 /\ ret.value.val[w].total_count >= 2
    /\ \E w \in DOMAIN ret.value.val : Cardinality(SessionsWith(w)) = 1

-----------------------------------------------------------------------------
(* C8 *)

\* C8: session speakers are never merged into one identity: the merged speaker_count
\* of a word is the sum of the sessions' speaker_count for it
C8_SpeakerCountAdds ==
    Merged =>
        \A w \in DOMAIN ret.value.val :
            ret.value.val[w].speaker_count =
                SumOf([name \in SessionsWith(w) |->
                            sessions[name].word_stats.val[w].speaker_count],
                      SessionsWith(w))

-----------------------------------------------------------------------------
(* C9 *)

\* the fields and values of the sessions' entries for w
SessionFields(w) ==
    UNION {DOMAIN sessions[name].word_stats.val[w].metadata : name \in SessionsWith(w)}

SessionValues(w, f) ==
    UNION {DOMAIN Get(sessions[name].word_stats.val[w].metadata, f, EmptyDict) :
            name \in SessionsWith(w)}

\* C9: a merged metadata count is the sum of the sessions' counts for that word,
\* field and value, and the merged fields are the union of the sessions' fields
C9_MergedMetadataAdds ==
    Merged =>
        \A w \in DOMAIN ret.value.val :
            /\ DOMAIN ret.value.val[w].metadata = SessionFields(w)
            /\ \A f \in SessionFields(w) :
                /\ DOMAIN ret.value.val[w].metadata[f] = SessionValues(w, f)
                /\ \A v \in SessionValues(w, f) :
                    ret.value.val[w].metadata[f][v] =
                        SumOf([name \in SessionsWith(w) |->
                                    Count2(sessions[name].word_stats.val[w].metadata, f, v)],
                              SessionsWith(w))

\* a merged entry adds one value over both sessions and keeps a field that only one
\* session has
C9_Witness ==
    /\ Merged
    /\ \E w \in DOMAIN ret.value.val : \E f \in SessionFields(w) :
        \E v \in SessionValues(w, f) :
            /\ \A name \in SessionsWith(w) :
                    Count2(sessions[name].word_stats.val[w].metadata, f, v) >= 1
            /\ Cardinality(SessionsWith(w)) = 2
            /\ \E g \in SessionFields(w) : \E name \in SessionsWith(w) :
                    g \notin DOMAIN sessions[name].word_stats.val[w].metadata

-----------------------------------------------------------------------------
(* C10 *)

\* C10: with concurrent get_session calls for one discovered name the SessionData is
\* constructed at most once and all callers receive the same object
C10_ConstructedOnce ==
    /\ \A name \in SessionNames : built[name] <= 1
    /\ \A t1 \in Threads, t2 \in Threads :
        \A i \in DOMAIN got[t1], j \in DOMAIN got[t2] :
            (got[t1][i].name = got[t2][j].name /\ ~got[t1][i].raised /\ ~got[t2][j].raised)
                => got[t1][i].oid = got[t2][j].oid

-----------------------------------------------------------------------------
(* C11, C12 *)

\* the step is a get_session(n) call, or a refresh() call
GetStep(n) == ret'.op = "get_session" /\ ret'.name = n /\ disk' = disk
RefreshStep == ret'.op = "refresh" /\ disk' = disk

\* C11: a cached session is returned as the same instance, without rebuilding, until
\* a refresh that does not discover its name; a refresh evicts exactly the cached
\* names it does not discover and keeps every other instance as it is; get_session
\* for a discovered name that is not cached builds a new instance from the folder
C11_CacheLifecycle ==
    [][/\ \A n \in DOMAIN sessions :
            /\ GetStep(n) =>
                    /\ ~ret'.raised
                    /\ ret'.oid = sessions[n].oid
                    /\ built' = built
            /\ IF RefreshStep /\ n \notin Range(discover_sessions(disk))
               THEN n \notin DOMAIN sessions'
               ELSE n \in DOMAIN sessions' /\ sessions'[n] = sessions[n]
       /\ RefreshStep => DOMAIN sessions' \subseteq DOMAIN sessions
       /\ \A n \in SessionNames \ DOMAIN sessions :
            (GetStep(n) /\ n \in Range(session_info) /\ n \in DOMAIN disk) =>
                /\ built'[n] = built[n] + 1
                /\ n \in DOMAIN sessions'
                /\ sessions'[n] = SessionData(n, disk[n], <<n, built'[n]>>)
                /\ ret'.oid = sessions'[n].oid
                /\ ~ret'.raised
      ]_vars

\* get_session returns the second instance of a session that was evicted and
\* rediscovered, while the other session is still cached as its first instance
C11_Witness ==
    /\ ret.op = "get_session" /\ ret.name = "s" /\ ret.oid = <<"s", 2>>
    /\ "s" \in DOMAIN sessions /\ sessions["s"].oid = <<"s", 2>>
    /\ "s:A" \in DOMAIN sessions /\ sessions["s:A"].oid = <<"s:A", 1>>

\* C12: get_session(name) raises the not-found error exactly when name is not in the
\* last discovered list, the cached names are always discovered names, and a call
\* that raises leaves the cache and the discovered list as they were
C12_NotFoundIffUndiscovered ==
    /\ [](DOMAIN sessions \subseteq Range(session_info))
    /\ [][\A n \in SessionNames \cup {OtherFolder} :
            GetStep(n) =>
                /\ (ret'.error = "ValueError") <=> (n \notin Range(session_info))
                /\ ret'.raised =>
                        /\ sessions' = sessions
                        /\ session_info' = session_info
                        /\ built' = built
         ]_vars

\* get_session raised not-found for a session that had been built and was evicted,
\* although its folder is in the data directory again
C12_Witness ==
    /\ ret.op = "get_session" /\ ret.error = "ValueError"
    /\ ret.name \in SessionNames
    /\ ret.name \in DOMAIN disk
    /\ built[ret.name] >= 1
    /\ ret.name \notin DOMAIN sessions

-----------------------------------------------------------------------------
(* C13 *)

Frequencies == ret.op \in {"get_filtered_frequencies", "get_merged_frequencies"}

\* the place of word w in the insertion order of table T
Place(T, w) == CHOOSE i \in DOMAIN T.keys : T.keys[i] = w

\* C13: the frequency queries return the counts of the top_n words of the (filtered)
\* table, or of all its words when there are fewer: listed by non-increasing count,
\* no omitted word counted higher than a returned one, and among equal counts the
\* word inserted first listed first and preferred at the cut
C13_TopNByCount ==
    Frequencies =>
        LET T == ret.stats
            V == ret.value
            Count(w) == T.val[w].total_count
        IN  /\ Len(V.keys) = (IF ret.top_n < Len(T.keys) THEN ret.top_n ELSE Len(T.keys))
            /\ DOMAIN V.val = Range(V.keys)
            /\ Range(V.keys) \subseteq Range(T.keys)
            /\ \A i \in DOMAIN V.keys, j \in DOMAIN V.keys :
                    i < j =>
                        /\ V.keys[i] # V.keys[j]
                        /\ Count(V.keys[i]) >= Count(V.keys[j])
                        /\ Count(V.keys[i]) = Count(V.keys[j]) =>
                                Place(T, V.keys[i]) < Place(T, V.keys[j])
            /\ \A w \in Range(V.keys) : V.val[w] = Count(w)
            /\ \A o \in Range(T.keys) \ Range(V.keys) : \A w \in Range(V.keys) :
                    /\ Count(o) <= Count(w)
                    /\ Count(o) = Count(w) => Place(T, w) < Place(T, o)

\* a query cut a table of two words of equal count down to the first one
C13_Witness ==
    /\ Frequencies
    /\ ret.top_n = 1
    /\ Len(ret.stats.keys) = 2
    /\ ret.stats.val[ret.stats.keys[1]].total_count = ret.stats.val[ret.stats.keys[2]].total_count
    /\ ret.value.keys = <<ret.stats.keys[1]>>

-----------------------------------------------------------------------------
(* C14 *)

Details == ret.op \in {"get_word_details", "get_merged_word_details"}

\* the letter c in both cases
Cases(c) ==
    {c, LowerChar(c)} \cup
        {UpperAlpha[i] : i \in {j \in DOMAIN LowerAlpha : LowerAlpha[j] = c}}

\* the spellings of word w that differ from it in letter case only
CaseVariants(w) ==
    {v \in [DOMAIN w -> UNION {Cases(w[i]) : i \in DOMAIN w}] :
        \A i \in DOMAIN w : v[i] \in Cases(w[i])}

\* what a lookup of word w in table T is to return
EntryOrZero(T, w) ==
    IF LowerSeq(w) \in DOMAIN T.val THEN T.val[LowerSeq(w)]
    ELSE [total_count |-> 0, speaker_count |-> 0, speakers |-> EmptyDict,
          metadata |-> EmptyDict]

\* C14: a word lookup returns the entry stored under the lower-cased word, or the
\* zero entry when there is none, and what it returns is what every other letter-case
\* spelling of the word is to return
C14_LookupOrZero ==
    Details =>
        /\ ret.value = EntryOrZero(ret.stats, ret.word)
        /\ \A v \in CaseVariants(ret.word) : EntryOrZero(ret.stats, v) = ret.value

\* a lookup under a filter missed although the filtered table is not empty
C14_Witness ==
    /\ Details
    /\ DOMAIN ret.filters # {}
    /\ ret.stats.keys # << >>
    /\ LowerSeq(ret.word) \notin DOMAIN ret.stats.val
    /\ ret.value.total_count = 0
    /\ ret.value.speakers = EmptyDict

-----------------------------------------------------------------------------
(* C15 *)

\* the value speaker s of directory dir has for field f, "" when the speaker or the
\* field is missing
ValueOf(dir, s, f) ==
    IF s \in DOMAIN dir /\ f \in DOMAIN dir[s] THEN dir[s][f] ELSE ""

\* C15: under a filter with a selection for a field, no speaker whose value for that
\* field is empty or missing, and no speaker outside the directory, has counts in the
\* filtered table, whatever the selected values are
C15_EmptyValueNeverMatches ==
    Selective =>
        \A f \in DOMAIN ret.filters :
            ret.filters[f] # {} =>
                \A w \in DOMAIN ret.value.val :
                    \A s \in DOMAIN ret.value.val[w].speakers :
                        ValueOf(ret.speakers, s, LowerName(f)) # ""

-----------------------------------------------------------------------------
(* C16 *)

\* C16: filter_word_stats with a filter that is empty or selects no value for any
\* field returns a table equal to the one it was given, the words and counts of
\* speakers outside the directory included
C16_NoOpFilter ==
    (Filtered /\ \A f \in DOMAIN ret.filters : ret.filters[f] = {}) =>
        ret.value = ret.word_stats

\* a filter with a field and no selected value was applied to a table that counts a
\* speaker who is not in the directory
C16_Witness ==
    /\ Filtered
    /\ DOMAIN ret.filters # {}
    /\ \A f \in DOMAIN ret.filters : ret.filters[f] = {}
    /\ \E w \in DOMAIN ret.word_stats.val :
        \E s \in DOMAIN ret.word_stats.val[w].speakers :
            /\ s \notin DOMAIN ret.speakers
            /\ s \in DOMAIN ret.value.val[w].speakers

-----------------------------------------------------------------------------
(* C17 *)

\* C17: no filter, merge or lookup call, and no later write of a caller into the
\* table or entry such a call returned, changes the word_stats or speakers of a
\* cached session
C17_CacheUntouched ==
    [][\A name \in DOMAIN sessions :
            name \in DOMAIN sessions' =>
                /\ sessions'[name].word_stats = sessions[name].word_stats
                /\ sessions'[name].speakers = sessions[name].speakers
      ]_vars

-----------------------------------------------------------------------------
(* C18 *)

\* token text t in lower case, without the characters before its first and after
\* its last word character
CleanedText(t) ==
    LET at == {i \in DOMAIN t : t[i] \in WordChars}
    IN  IF at = {} THEN << >>
        ELSE LowerSeq(SubSeq(t, CHOOSE i \in at : \A j \in at : i <= j,
                                CHOOSE i \in at : \A j \in at : i >= j))

\* the token texts of the transcripts on disk
TokenTexts ==
    UNION {{disk[name].json[i].word : i \in DOMAIN disk[name].json} : name \in DOMAIN disk}

\* C18: no key of a produced table is a stop word, empty or shorter than 2
\* characters, and every key is the cleaned text of a token
C18_KeysAreCleanNonStopWords ==
    \A T \in ProducedTables :
        /\ Range(T.keys) = DOMAIN T.val
        /\ \A w \in DOMAIN T.val :
            /\ w \notin get_stop_words
            /\ w # << >>
            /\ Len(w) >= 2
            /\ \E t \in TokenTexts : w = CleanedText(t)

\* the merged table counts a word under its cleaned text for both sessions, from
\* transcripts that have a stop word too
C18_Witness ==
    /\ Merged
    /\ <<"h","i">> \in DOMAIN ret.value.val
    /\ ret.value.val[<<"h","i">>].total_count = 2
    /\ <<"(","H","i","!">> \in TokenTexts
    /\ \E t \in TokenTexts : CleanedText(t) \in get_stop_words

-----------------------------------------------------------------------------
(* C19 *)

\* C19: in every entry of every produced table speaker_count is the number of keys
\* of speakers, every speaker's count is at least 1, and total_count is at least 1
C19_SpeakerCountIsDistinctSpeakers ==
    \A T \in ProducedTables : \A w \in DOMAIN T.val :
        /\ T.val[w].speaker_count = Cardinality(DOMAIN T.val[w].speakers)
        /\ \A s \in DOMAIN T.val[w].speakers : T.val[w].speakers[s] >= 1
        /\ T.val[w].total_count >= 1

\* a filter kept one of two speakers of a word, who said it more than once
C19_Witness ==
    /\ Selective
    /\ \E w \in DOMAIN ret.value.val :
        /\ ret.value.val[w].speaker_count = 1
        /\ ret.value.val[w].total_count >= 2
        /\ ret.word_stats.val[w].speaker_count = 2

-----------------------------------------------------------------------------
(* C20 *)

\* the fields the options are offered for
Filterable(f) == f \notin {"speaker_id", "name", "speaker", "description"}

\* some speaker of some discovered session has the non-empty value v for field f
Observed(f, v) ==
    \E name \in Range(session_info) :
        \E s \in DOMAIN sessions[name].speakers :
            /\ f \in DOMAIN sessions[name].speakers[s]
            /\ sessions[name].speakers[s][f] = v
            /\ v # ""

\* C20: the merged filter options list, for each filterable field, exactly the
\* non-empty values that some speaker of some discovered session has for it, each
\* once and in ascending order, and have exactly the fields with such a value
C20_MergedOptionsAreUnion ==
    ret.op = "get_merged_filter_options" =>
        LET O == ret.value
            fields == UNION {FieldsOf(sessions[name].speakers) : name \in Range(session_info)}
            values == UNION {ValuesOf(sessions[name].speakers) : name \in Range(session_info)}
        IN  /\ \A f \in DOMAIN O :
                /\ Filterable(f)
                /\ O[f] # << >>
                /\ \A i \in DOMAIN O[f], j \in DOMAIN O[f] :
                        i < j => ValueRank(O[f][i]) < ValueRank(O[f][j])
                /\ \A v \in Range(O[f]) : Observed(f, v)
            /\ \A f \in fields : \A v \in values :
                    (Filterable(f) /\ Observed(f, v)) => (f \in DOMAIN O /\ v \in Range(O[f]))

\* the options of two sessions: a field of both with its two values in order, a
\* field of each session alone, and none for a field whose values are all empty
C20_Witness ==
    /\ ret.op = "get_merged_filter_options"
    /\ Len(session_info) = 2
    /\ ret.value["role"] = <<"n", "s">>
    /\ {"zone", "team"} \subseteq DOMAIN ret.value
    /\ "region" \notin DOMAIN ret.value
    /\ "region" \in FieldsOf(sessions["s"].speakers)

-----------------------------------------------------------------------------
(* C21 *)

\* the subfolders of the root that hold both a transcript and a speaker list
SessionFolders ==
    IF disk = NoRoot THEN {}
    ELSE {name \in DOMAIN disk :
            disk[name].is_dir /\ disk[name].has_json /\ disk[name].has_csv}

\* C21: the discovered list names exactly the subfolders with both files, each once
\* and in ascending order, it is empty when the root is missing or has no such
\* folder, discovery builds and caches no session, and without a discovered session
\* the merged table, the merged filter options and the merged frequencies are empty
C21_DiscoverExactlySessionFolders ==
    /\ [](/\ Range(session_info) = SessionFolders
          /\ \A i \in DOMAIN session_info, j \in DOMAIN session_info :
                i < j => NameRank(session_info[i]) < NameRank(session_info[j])
          /\ ret.op = "none" =>
                (sessions = EmptyDict /\ \A name \in SessionNames : built[name] = 0)
          /\ session_info = << >> =>
                /\ sessions = EmptyDict
                /\ ret.op = "get_merged_word_stats" => ret.value = EmptyTable
                /\ ret.op = "get_merged_filter_options" => ret.value = EmptyDict
                /\ ret.op = "get_merged_frequencies" =>
                        (ret.value.keys = << >> /\ ret.value.val = EmptyDict))
    /\ [][RefreshStep => (built' = built /\ DOMAIN sessions' \subseteq DOMAIN sessions)]_vars

\* the merged frequencies were asked of a manager whose root is missing
C21_Witness ==
    /\ disk = NoRoot
    /\ session_info = << >>
    /\ ret.op = "get_merged_frequencies"
    /\ ret.value.keys = << >>

-----------------------------------------------------------------------------
(* C22 *)

\* total_count of w in table T, 0 when T does not have w
TotalIn(T, w) == IF w \in DOMAIN T.val THEN T.val[w].total_count ELSE 0

\* filter_word_stats on the table and speakers of one loaded session
SessionFiltered(name, F) ==
    filter_word_stats(sessions[name].word_stats, sessions[name].speakers, F)

\* C22: for a filter on fields of the speaker lists, the count of every word in the
\* filtered merged table is the sum of its counts in the filtered tables of the
\* sessions, and the word is in the merged one exactly if it is in one of them
C22_FilterCommutesWithMerge ==
    (Filtered /\ ret.merged /\ \A f \in DOMAIN ret.filters : LowerName(f) # "session") =>
        \A w \in DOMAIN ret.word_stats.val :
            /\ TotalIn(ret.value, w) =
                    SumOf([name \in Range(session_info) |->
                                TotalIn(SessionFiltered(name, ret.filters), w)],
                          Range(session_info))
            /\ w \in DOMAIN ret.value.val <=>
                    \E name \in Range(session_info) :
                        w \in DOMAIN SessionFiltered(name, ret.filters).val

-----------------------------------------------------------------------------
(* C23 *)

\* C23: under a filter with a selection, every metadata field and value of an entry
\* of the filtered merged table is a field and value of the same word's entry in the
\* merged table, with a count that is not higher
C23_FilteredMetadataWithinMerged ==
    (Selective /\ ret.merged) =>
        \A w \in DOMAIN ret.value.val :
            \A f \in DOMAIN ret.value.val[w].metadata :
                /\ f \in DOMAIN ret.word_stats.val[w].metadata
                /\ \A v \in DOMAIN ret.value.val[w].metadata[f] :
                    /\ v \in DOMAIN ret.word_stats.val[w].metadata[f]
                    /\ ret.value.val[w].metadata[f][v] <= ret.word_stats.val[w].metadata[f][v]

-----------------------------------------------------------------------------
(* C24 *)

\* the speakers of a loaded session: those of its speaker list and those of its table
SpeakersOf(name) ==
    DOMAIN sessions[name].speakers \cup
        UNION {DOMAIN sessions[name].word_stats.val[w].speakers :
                    w \in DOMAIN sessions[name].word_stats.val}

\* C24: when the sessions are merged, two different (session, speaker) pairs never
\* have the same merged key
C24_QualificationInjective ==
    (Merged \/ (Filtered /\ ret.merged)) =>
        \A n1 \in Range(session_info), n2 \in Range(session_info) :
            \A s1 \in SpeakersOf(n1), s2 \in SpeakersOf(n2) :
                <<n1, s1>> # <<n2, s2>> => Qualified(n1, s1) # Qualified(n2, s2)

====
